---- MODULE Spec2Model ----
(***************************************************************************)
(* Button network (docs/agentpy_button_network.ipynb): ButtonModel ties    *)
(* random pairs of n buttons together, int(n * speed) threads per step,    *)
(* and records after every step the threads-to-button ratio and the size   *)
(* of the biggest cluster divided by n.                                    *)
(*                                                                         *)
(* A run is an object `model[r]` (the ButtonModel instance: parameters p,  *)
(* the agent list, the agents' nodes, the graph `buttons`, the counter     *)
(* `threads`, the recorded `log`) driven by the run loop (status, t).      *)
(* Numbers that the notebook computes as floats are exact rationals here:  *)
(* speed is p.speed / SpeedDen and a recorded value is <<num, den>>.       *)
(* Run r draws from the random stream of its seed `seed[r]`; runs with the *)
(* same seed read the same stream. `tape[s]` is the stretch of the stream  *)
(* of seed s that some run has drawn and another has still to draw, and    *)
(* `rngpos[r]` is how far into it run r has read.                          *)
(* `uf[r]` is the disjoint-set structure that the design keeps next to the *)
(* graph: parents, set sizes at the roots, and the running maximum size;   *)
(* it is there for the runs of DOMAIN uf only.                             *)
(***************************************************************************)
EXTENDS Integers, Sequences, FiniteSets, TLC

\* ------------------------------------------------------------------ bounds
MaxN == 4
SpeedDen == 4
MaxSpeedNum == 4
MaxSteps == 3
MaxThreads == 3
SmallMaxN == 3
SmallMaxThreads == 2

Runs == {1, 2}

VARIABLES model, status, t, live, seed, tape, rngpos, uf

vars == <<model, status, t, live, seed, tape, rngpos, uf>>

\* ------------------------------------------------------- numeric helpers
\* Python's int(x) on the rational num / den (den > 0): truncation to zero.
int(num, den) ==
    IF num >= 0 THEN num \div den ELSE -((-num) \div den)

\* a / b as the exact rational <<a, b>> (b # 0 is the caller's duty).
Div(a, b) == <<a, b>>

\* x <= y for two rationals with positive denominators.
Leq(x, y) == x[1] * y[2] <= y[1] * x[2]

Max(S) == CHOOSE x \in S : \A y \in S : y <= x

\* ---------------------------------------------------------------- graph
\* nx.Graph: a simple undirected graph; an edge is the set of its two ends.
EmptyGraph == [nodes |-> {}, edges |-> {}]

\* (mutant) an edge that is already there is removed instead.
add_edge_m(g, u, v) ==
    [nodes |-> g.nodes \cup {u, v},
     edges |-> (g.edges \ {{u, v}}) \cup ({{u, v}} \ g.edges)]

\* Graph.add_edge(u, v): nodes that are missing are added with the edge, and
\* an edge that is already there is not added a second time.
add_edge(g, u, v) ==
    [nodes |-> g.nodes \cup {u, v}, edges |-> g.edges \cup {{u, v}}]

\* The nodes reachable from the set S (breadth-first, to the fixed point).
RECURSIVE Reach(_, _)
Reach(g, S) ==
    LET S2 == S \cup {w \in g.nodes : \E u \in S : {u, w} \in g.edges}
    IN  IF S2 = S THEN S ELSE Reach(g, S2)

\* nx.connected_components(g): one node set per component.
connected_components(g) == {Reach(g, {v}) : v \in g.nodes}

\* ------------------------------------------------------------ ButtonModel
\* The object before setup() has run: only its parameters are set.
NewModel(c) ==
    [p |-> c, agents |-> {}, node |-> <<>>, buttons |-> EmptyGraph,
     threads |-> 0, log |-> <<>>]

\* (mutant) one agent too few.
setup_short(self) ==
    LET ids == 1 .. self.p.n - 1
    IN  [self EXCEPT !.agents = ids,
                     !.node = [a \in ids |-> a - 1],
                     !.buttons = [nodes |-> {a - 1 : a \in ids}, edges |-> {}],
                     !.threads = 0]

\* (mutant) the graph is kept at class level: an instance set up while
\* another one exists starts from that one's graph.
setup_shared(self) ==
    LET ids == 1 .. self.p.n
        others == {r \in live : status[r] # "new"}
    IN  [self EXCEPT !.agents = ids,
                     !.node = [a \in ids |-> a - 1],
                     !.buttons = IF others = {}
                                 THEN [nodes |-> {a - 1 : a \in ids}, edges |-> {}]
                                 ELSE model[CHOOSE r \in others : TRUE].buttons,
                     !.threads = 0]

\* ButtonModel.setup: a graph with one node per agent, no thread yet.
setup(self) ==
    LET ids == 1 .. self.p.n
    IN  [self EXCEPT !.agents = ids,
                     !.node = [a \in ids |-> a - 1],
                     !.buttons = [nodes |-> {a - 1 : a \in ids}, edges |-> {}],
                     !.threads = 0]

\* (mutant) n * speed is rounded up.
edges_per_step_ceil(c) ==
    LET k == int(c.n * c.speed + SpeedDen - 1, SpeedDen) IN IF k < 0 THEN 0 ELSE k

\* range(int(self.p.n * self.p.speed)): the number of threads tied per step.
edges_per_step(c) ==
    LET k == int(c.n * c.speed, SpeedDen) IN IF k < 0 THEN 0 ELSE k

\* (mutant) drawn with replacement: an agent can be drawn twice.
random2_replace(ags) == ags \X ags

\* self.agents.random(2): two different agents of the list, in drawing order.
random2(ags) == {pr \in ags \X ags : pr[1] # pr[2]}

\* (mutant) the agents themselves are tied, not their nodes.
tie_agents(self, pr) ==
    [self EXCEPT !.buttons = add_edge(@, pr[1], pr[2]),
                 !.threads = @ + 1]

\* (mutant) the counter runs backwards.
tie_minus(self, pr) ==
    [self EXCEPT !.buttons = add_edge(@, self.node[pr[1]], self.node[pr[2]]),
                 !.threads = @ - 1]

\* (mutant) a pair that is already tied is not counted again.
tie_dedup(self, pr) ==
    LET e == {self.node[pr[1]], self.node[pr[2]]}
    IN  [self EXCEPT !.buttons = add_edge(@, self.node[pr[1]], self.node[pr[2]]),
                     !.threads = IF e \in self.buttons.edges THEN @ ELSE @ + 1]

\* One pass of the loop of step(): tie the drawn pair, count the thread.
tie(self, pr) ==
    [self EXCEPT !.buttons = add_edge(@, self.node[pr[1]], self.node[pr[2]]),
                 !.threads = @ + 1]

\* ButtonModel.step with ds the pairs its draws return, in order.
RECURSIVE step(_, _)
step(self, ds) ==
    IF ds = <<>> THEN self ELSE step(tie(self, Head(ds)), Tail(ds))

\* step() raises when a pair cannot be drawn (sample larger than the list).
step_raises(self) ==
    edges_per_step(self.p) >= 1 /\ random2(self.agents) = {}

\* (mutant) the size of the first cluster, not of the biggest.
max_cluster_size_first(self) ==
    Div(Cardinality(Reach(self.buttons, {0})), self.p.n)

\* (mutant) divided by the number of clusters instead of n.
max_cluster_size_m(self) ==
    Div(Max({Cardinality(g) : g \in connected_components(self.buttons)}),
        Cardinality(connected_components(self.buttons)))

\* max([len(g) for g in clusters]) / self.p.n
max_cluster_size(self) ==
    Div(Max({Cardinality(g) : g \in connected_components(self.buttons)}),
        self.p.n)

\* self.threads / self.p.n
threads_to_button(self) == Div(self.threads, self.p.n)

\* (mutant) each value is recorded as a row of its own.
update_rows(self) ==
    [self EXCEPT !.log = @ \o
        << [threads_to_button |-> threads_to_button(self),
            max_cluster_size |-> max_cluster_size(self)],
           [threads_to_button |-> threads_to_button(self),
            max_cluster_size |-> max_cluster_size(self)] >>]

\* ButtonModel.update: record both values of this step.
update(self) ==
    [self EXCEPT !.log = Append(@, [threads_to_button |-> threads_to_button(self),
                                    max_cluster_size |-> max_cluster_size(self)])]

\* update() raises on max() of no cluster and on a division by n = 0.
update_raises(self) ==
    connected_components(self.buttons) = {} \/ self.p.n = 0

\* ------------------------------------------------------------ union-find
\* No structure yet (before construction).
uf_none == [parent |-> <<>>, size |-> <<>>, largest |-> 0]

\* n singleton sets.
uf_new(n) ==
    [parent |-> [v \in 0 .. n - 1 |-> v],
     size |-> [v \in 0 .. n - 1 |-> 1],
     largest |-> IF n >= 1 THEN 1 ELSE 0]

\* The root of the set of x.
RECURSIVE uf_root(_, _)
uf_root(parent, x) ==
    IF parent[x] = x THEN x ELSE uf_root(parent, parent[x])

\* The nodes on the way from x up to its root.
RECURSIVE uf_path(_, _)
uf_path(parent, x) ==
    IF parent[x] = x THEN {x} ELSE {x} \cup uf_path(parent, parent[x])

\* find with path compression: every node on the way points to the root.
uf_find(u, x) ==
    LET rt == uf_root(u.parent, x)
        way == uf_path(u.parent, x)
    IN  [root |-> rt,
         uf |-> [u EXCEPT !.parent = [v \in DOMAIN @ |-> IF v \in way THEN rt ELSE @[v]]]]

\* (mutant) the running maximum is compared with the size before the merge.
uf_union_stale(u, x, y) ==
    LET fx == uf_find(u, x)
        fy == uf_find(fx.uf, y)
        v == fy.uf
        a == fx.root
        b == fy.root
        big == IF v.size[a] >= v.size[b] THEN a ELSE b
        small == IF big = a THEN b ELSE a
    IN  IF a = b THEN v
        ELSE [parent |-> [v.parent EXCEPT ![small] = big],
              size |-> [v.size EXCEPT ![big] = v.size[a] + v.size[b]],
              largest |-> IF v.size[big] > v.largest THEN v.size[big] ELSE v.largest]

\* union by size of the sets of x and y; a merge updates the running maximum.
uf_union(u, x, y) ==
    LET fx == uf_find(u, x)
        fy == uf_find(fx.uf, y)
        v == fy.uf
        a == fx.root
        b == fy.root
        big == IF v.size[a] >= v.size[b] THEN a ELSE b
        small == IF big = a THEN b ELSE a
        merged == v.size[a] + v.size[b]
    IN  IF a = b THEN v
        ELSE [parent |-> [v.parent EXCEPT ![small] = big],
              size |-> [v.size EXCEPT ![big] = merged],
              largest |-> IF merged > v.largest THEN merged ELSE v.largest]

\* The merges of one step: one union per drawn pair, in drawing order.
RECURSIVE uf_step(_, _, _)
uf_step(u, self, ds) ==
    IF ds = <<>> THEN u
    ELSE uf_step(uf_union(u, self.node[Head(ds)[1]], self.node[Head(ds)[2]]),
                 self, Tail(ds))

\* ------------------------------------------------------------- run loop
\* (mutant) the speed is not looked at.
InvalidConfiguration_m(c) == c.n < 2 \/ c.steps < 0

\* Construction refuses n < 2, speed < 0 and steps < 0.
InvalidConfiguration(c) == c.n < 2 \/ c.speed < 0 \/ c.steps < 0

\* The draws of one step: what the tape of the run's seed already holds
\* from this run's position on, and fresh draws beyond its end.
Draws(r, k) ==
    {ds \in [1 .. k -> random2(model[r].agents)] :
        \A i \in 1 .. k :
            rngpos[r] + i <= Len(tape[seed[r]]) =>
                ds[i] = tape[seed[r]][rngpos[r] + i]}

Reveal(r, ds) ==
    IF rngpos[r] + Len(ds) > Len(tape[seed[r]])
    THEN SubSeq(tape[seed[r]], 1, rngpos[r]) \o ds
    ELSE tape[seed[r]]

\* The positions after run r has read ds, and the draws every run of the
\* same seed has read.
Advanced(r, ds) == [rngpos EXCEPT ![r] = @ + Len(ds)]

ReadByAll(r, ds) ==
    LET pos == Advanced(r, ds)
        same == {q \in live : seed[q] = seed[r]}
    IN  CHOOSE m \in {pos[q] : q \in same} : \A q \in same : m <= pos[q]

\* Run r reads ds: its stream moves on, what every run of the seed has read
\* is dropped.
Consume(r, ds) ==
    LET all == Reveal(r, ds)
        done == ReadByAll(r, ds)
    IN  /\ tape' = [tape EXCEPT ![seed[r]] = SubSeq(all, done + 1, Len(all))]
        /\ rngpos' = [q \in Runs |->
                         IF q \in live /\ seed[q] = seed[r]
                         THEN Advanced(r, ds)[q] - done
                         ELSE rngpos[q]]

Construct(r) ==
    /\ status[r] = "new"
    /\ IF InvalidConfiguration(model[r].p)
       THEN /\ status' = [status EXCEPT ![r] = "InvalidConfiguration"]
            /\ UNCHANGED <<model, uf>>
       ELSE /\ status' = [status EXCEPT ![r] = "running"]
            /\ model' = [model EXCEPT ![r] = setup(@)]
            /\ uf' = IF r \in DOMAIN uf
                     THEN [uf EXCEPT ![r] = uf_new(model[r].p.n)]
                     ELSE uf
    /\ UNCHANGED <<t, live, seed, tape, rngpos>>

\* (mutant) one step too many.
more_steps_m(r) == t[r] <= model[r].p.steps

\* run(): the loop goes on while fewer than `steps` steps are done.
more_steps(r) == t[r] < model[r].p.steps

\* One step of the run: step(), then update(); an exception ends the run.
runStep(r) ==
    /\ status[r] = "running"
    /\ more_steps(r)
    /\ IF step_raises(model[r])
       THEN /\ status' = [status EXCEPT ![r] = "failed"]
            /\ UNCHANGED <<model, t, tape, rngpos, uf>>
       ELSE \E ds \in Draws(r, edges_per_step(model[r].p)) :
              LET stepped == step(model[r], ds)
              IN  /\ Consume(r, ds)
                  /\ uf' = IF r \in DOMAIN uf
                           THEN [uf EXCEPT ![r] = uf_step(@, model[r], ds)]
                           ELSE uf
                  /\ IF update_raises(stepped)
                     THEN /\ status' = [status EXCEPT ![r] = "failed"]
                          /\ model' = [model EXCEPT ![r] = stepped]
                          /\ UNCHANGED t
                     ELSE /\ model' = [model EXCEPT ![r] = update(stepped)]
                          /\ t' = [t EXCEPT ![r] = @ + 1]
                          /\ UNCHANGED status
    /\ UNCHANGED <<live, seed>>

\* run() returns the log once `steps` steps are done.
run_return(r) ==
    /\ status[r] = "running"
    /\ ~more_steps(r)
    /\ status' = [status EXCEPT ![r] = "done"]
    /\ UNCHANGED <<model, t, live, seed, tape, rngpos, uf>>

\* ------------------------------------------------------- specifications
TotalDraws(c) == IF c.steps < 0 THEN 0 ELSE c.steps * edges_per_step(c)

Configs ==
    {c \in [n : 0 .. MaxN, speed : -1 .. MaxSpeedNum, steps : -1 .. MaxSteps] :
        TotalDraws(c) <= MaxThreads}

SmallConfigs ==
    {c \in [n : 0 .. SmallMaxN, speed : -1 .. MaxSpeedNum, steps : -1 .. MaxSteps] :
        TotalDraws(c) <= SmallMaxThreads}

InitWith(cs, rs) ==
    /\ live = rs
    /\ \E c \in cs : model = [r \in Runs |-> NewModel(c)]
    /\ status = [r \in Runs |-> "new"]
    /\ t = [r \in Runs |-> 0]
    /\ seed = [r \in Runs |-> 1]
    /\ tape = [s \in Runs |-> <<>>]
    /\ rngpos = [r \in Runs |-> 0]
    /\ uf = [r \in {} |-> uf_none]

\* One run.
Init == InitWith(Configs, {1})

\* One run that keeps the disjoint-set structure next to its graph.
InitUf ==
    /\ live = {1}
    /\ \E c \in Configs : model = [r \in Runs |-> NewModel(c)]
    /\ status = [r \in Runs |-> "new"]
    /\ t = [r \in Runs |-> 0]
    /\ seed = [r \in Runs |-> 1]
    /\ tape = [s \in Runs |-> <<>>]
    /\ rngpos = [r \in Runs |-> 0]
    /\ uf = [r \in {1} |-> uf_none]

\* Two runs with the same configuration and the same seed.
InitPair == InitWith(SmallConfigs, Runs)

Next ==
    \/ \E r \in live : Construct(r)
    \/ \E r \in live : runStep(r)
    \/ \E r \in live : run_return(r)

Spec == Init /\ [][Next]_vars

SpecPair == InitPair /\ [][Next]_vars

SpecUf == InitUf /\ [][Next]_vars

\* The small configurations that construction accepts and that take a step.
RunnableConfigs ==
    {c \in SmallConfigs : ~InvalidConfiguration(c) /\ c.steps >= 1}

\* An order on the configurations: of two runs, run 1 is the one whose
\* configuration comes first (the runs are interchangeable).
NoLater(c, d) ==
    \/ c.n < d.n
    \/ c.n = d.n /\ c.speed < d.speed
    \/ c.n = d.n /\ c.speed = d.speed /\ c.steps <= d.steps

\* Two runs, each with a configuration and a seed of its own.
InitIndep ==
    /\ live = Runs
    /\ \E c \in RunnableConfigs : \E d \in RunnableConfigs :
          /\ NoLater(c, d)
          /\ model = [r \in Runs |-> IF r = 1 THEN NewModel(c) ELSE NewModel(d)]
    /\ status = [r \in Runs |-> "new"]
    /\ t = [r \in Runs |-> 0]
    /\ seed = [r \in Runs |-> r]
    /\ tape = [s \in Runs |-> <<>>]
    /\ rngpos = [r \in Runs |-> 0]
    /\ uf = [r \in {} |-> uf_none]

SpecIndep == InitIndep /\ [][Next]_vars

\* One run of a small configuration.
InitSmall == InitWith(SmallConfigs, {1})

\* The run loop is a plain sequential loop: a run that can take its next
\* step takes it.
FairSpec == InitSmall /\ [][Next]_vars /\ WF_vars(Next)

\* ================================================================ claims
Started(r) == status[r] \in {"running", "done"}

Log(r) == model[r].log

\* floor(n * speed), as the specification words it.
FloorEdges(c) == (c.n * c.speed) \div SpeedDen

\* What the specification calls an out-of-domain configuration.
OutOfDomain(c) == c.n < 2 \/ c.speed < 0 \/ c.steps < 0

RECURSIVE SumSizes(_)
SumSizes(cs) ==
    IF cs = {} THEN 0
    ELSE LET g == CHOOSE x \in cs : TRUE
         IN  Cardinality(g) + SumSizes(cs \ {g})

\* C1: the log holds one entry per completed step: none after construction,
\* t entries after t steps, `steps` entries when run() has returned.
C1_LogCountsSteps ==
    \A r \in live :
        /\ Len(Log(r)) = t[r]
        /\ (status[r] = "new" => Log(r) = <<>>)
        /\ (status[r] = "done" => Len(Log(r)) = model[r].p.steps)

C1_Witness ==
    /\ status[1] = "done"
    /\ model[1].p.steps >= 2
    /\ Len(Log(1)) = model[1].p.steps
    /\ model[1].threads >= 2

C3_StepsCannotFail ==
    \A r \in live :
        /\ status[r] # "failed"
        /\ (Started(r) =>
              /\ random2(model[r].agents) # {}
              /\ connected_components(model[r].buttons) # {}
              /\ model[r].p.n # 0
              /\ ~step_raises(model[r])
              /\ ~update_raises(model[r]))

C3_Witness ==
    /\ status[1] = "running"
    /\ model[1].p.n = 2
    /\ edges_per_step(model[1].p) >= 1
    /\ t[1] >= 1

\* C4: every recorded max_cluster_size lies between 0 and 1.
C4_FractionBounds ==
    \A r \in live : \A i \in 1 .. Len(Log(r)) :
        LET f == Log(r)[i].max_cluster_size
        IN  /\ f[2] > 0
            /\ Leq(Div(0, 1), f)
            /\ Leq(f, Div(1, 1))

C4_Witness ==
    /\ Len(Log(1)) >= 2
    /\ Log(1)[1].max_cluster_size[1] < Log(1)[1].max_cluster_size[2]
    /\ Log(1)[2].max_cluster_size[1] = Log(1)[2].max_cluster_size[2]
    /\ model[1].p.n >= 3

\* C5: the clusters partition the n nodes 0 .. n-1: every node is in exactly
\* one cluster, the clusters are pairwise disjoint and their sizes sum to n.
C5_PartitionCoverage ==
    \A r \in live :
        Started(r) =>
            LET cs == connected_components(model[r].buttons)
                universe == 0 .. model[r].p.n - 1
            IN  /\ \A v \in universe : Cardinality({g \in cs : v \in g}) = 1
                /\ \A g \in cs : g \subseteq universe /\ g # {}
                /\ \A g \in cs : \A h \in cs : g # h => g \cap h = {}
                /\ SumSizes(cs) = model[r].p.n

C5_Witness ==
    /\ Started(1)
    /\ model[1].p.n = 4
    /\ model[1].threads = 2
    /\ Cardinality(connected_components(model[1].buttons)) = 2

C6_LogRatioMonotone ==
    \A r \in live : \A i \in 1 .. Len(Log(r)) - 1 :
        Leq(Log(r)[i].threads_to_button, Log(r)[i + 1].threads_to_button)

\* C6: threads_to_button never decreases from one log entry to the next,
\* and the thread counter itself never decreases.
C6_ThreadsMonotone ==
    [](C6_LogRatioMonotone)
    /\ [][\A r \in live : model'[r].threads >= model[r].threads]_vars

C6_Witness ==
    /\ Len(Log(1)) >= 2
    /\ ~Leq(Log(1)[2].threads_to_button, Log(1)[1].threads_to_button)

\* C7: max_cluster_size never decreases from one log entry to the next.
C7_ClusterMonotone ==
    \A r \in live : \A i \in 1 .. Len(Log(r)) - 1 :
        Leq(Log(r)[i].max_cluster_size, Log(r)[i + 1].max_cluster_size)

C7_Witness ==
    /\ Len(Log(1)) >= 3
    /\ ~Leq(Log(1)[2].max_cluster_size, Log(1)[1].max_cluster_size)
    /\ Log(1)[3].max_cluster_size = Log(1)[2].max_cluster_size
    /\ model[1].buttons.edges # {}
    /\ Cardinality(model[1].buttons.edges) < model[1].threads

\* C8: a run of a valid configuration ends: it takes exactly `steps` steps,
\* one after the other, returns, and takes no step after that.
C8_RunTerminates ==
    /\ (~OutOfDomain(model[1].p)) ~> (status[1] = "done")
    /\ [](\A r \in live : /\ Started(r) => t[r] <= model[r].p.steps
                          /\ status[r] = "done" => t[r] = model[r].p.steps)
    /\ [][\A r \in live : /\ t'[r] \in {t[r], t[r] + 1}
                          /\ status[r] = "done" =>
                                /\ status'[r] = "done"
                                /\ model'[r] = model[r]
                                /\ t'[r] = t[r]]_vars

C8_Witness ==
    /\ status[1] = "done"
    /\ t[1] = model[1].p.steps
    /\ model[1].p.steps >= 2
    /\ model[1].threads >= 2

\* C9: every step ties floor(n * speed) threads, so after t steps the counter
\* is t * floor(n * speed), and the last entry of a finished run records
\* steps * floor(n * speed) / n.
C9_ThreadCount ==
    \A r \in live :
        Started(r) =>
            /\ model[r].threads = t[r] * FloorEdges(model[r].p)
            /\ (status[r] = "done" /\ Log(r) # <<>> =>
                  Log(r)[Len(Log(r))].threads_to_button =
                      Div(model[r].p.steps * FloorEdges(model[r].p), model[r].p.n))

C9_Witness ==
    /\ status[1] = "done"
    /\ model[1].p.steps = 1
    /\ FloorEdges(model[1].p) = 3
    /\ model[1].threads = 3
    /\ Cardinality(model[1].buttons.edges) = 1

Own(r) == <<model[r], status[r], t[r]>>

\* The object a run that is alone has right after construction.
FreshAlone(c) ==
    [p |-> c, agents |-> 1 .. c.n, node |-> [a \in 1 .. c.n |-> a - 1],
     buttons |-> [nodes |-> 0 .. c.n - 1, edges |-> {}],
     threads |-> 0, log |-> <<>>]

\* m2 is what one step of a run that is alone can make of m: floor(n * speed)
\* more threads, between nodes of m, and one more entry, computed from m2.
StepAlone(m, m2) ==
    LET k == FloorEdges(m.p)
        new == m2.buttons.edges \ m.buttons.edges
        largest == Max({Cardinality(g) : g \in connected_components(m2.buttons)})
    IN  /\ m2.p = m.p /\ m2.agents = m.agents /\ m2.node = m.node
        /\ m2.buttons.nodes = m.buttons.nodes
        /\ m.buttons.edges \subseteq m2.buttons.edges
        /\ Cardinality(new) <= k
        /\ \A e \in new : e \subseteq m.buttons.nodes /\ Cardinality(e) = 2
        /\ m2.threads = m.threads + k
        /\ m2.log = Append(m.log, [threads_to_button |-> <<m2.threads, m.p.n>>,
                                   max_cluster_size |-> <<largest, m.p.n>>])

\* Run r moves as a run that is alone would move from its own state.
MovesAlone(r) ==
    \/ /\ status[r] = "new" /\ OutOfDomain(model[r].p)
       /\ status'[r] = "InvalidConfiguration"
       /\ model'[r] = model[r] /\ t'[r] = t[r]
    \/ /\ status[r] = "new" /\ ~OutOfDomain(model[r].p)
       /\ status'[r] = "running"
       /\ model'[r] = FreshAlone(model[r].p) /\ t'[r] = t[r]
    \/ /\ status[r] = "running" /\ t[r] < model[r].p.steps
       /\ status'[r] = "running"
       /\ StepAlone(model[r], model'[r]) /\ t'[r] = t[r] + 1
    \/ /\ status[r] = "running" /\ t[r] >= model[r].p.steps
       /\ status'[r] = "done"
       /\ model'[r] = model[r] /\ t'[r] = t[r]

\* C11: runs share no state: in every interleaving of two runs, a step of one
\* run changes nothing of the other, and it takes that run from its own state
\* to a state the run would reach from there when it is alone.
C11_RunsIndependent ==
    [][\A r \in live :
          Own(r)' # Own(r) =>
              /\ MovesAlone(r)
              /\ \A q \in live \ {r} : Own(q)' = Own(q)]_vars

C11_Witness ==
    /\ status[1] = "done" /\ status[2] = "running"
    /\ model[1].p.n # model[2].p.n
    /\ model[1].p.steps # model[2].p.steps
    /\ model[1].threads = 2 /\ model[2].threads = 1
    /\ t[2] = 1 /\ model[2].p.steps = 2
    /\ model[1].buttons # model[2].buttons

\* --------------------------------------------------------- C12 .. C18
Edges(r) == model[r].buttons.edges

Clusters(r) == connected_components(model[r].buttons)

Largest(r) == Max({Cardinality(g) : g \in Clusters(r)})

\* C12: when floor(n * speed) = 0 no thread is ever tied: every node stays a
\* cluster of its own and every entry records the ratio 0 and the size 1/n.
C12_NoEdgesAtSpeedZero ==
    \A r \in live :
        Started(r) /\ FloorEdges(model[r].p) = 0 =>
            /\ Edges(r) = {}
            /\ model[r].threads = 0
            /\ Clusters(r) = {{v} : v \in 0 .. model[r].p.n - 1}
            /\ \A i \in 1 .. Len(Log(r)) :
                  /\ Log(r)[i].threads_to_button = <<0, model[r].p.n>>
                  /\ Log(r)[i].max_cluster_size = <<1, model[r].p.n>>

C12_Witness ==
    /\ status[1] = "done"
    /\ model[1].p.speed > 0
    /\ FloorEdges(model[1].p) = 0
    /\ model[1].p.n = 3
    /\ Len(Log(1)) = 3

\* C13: with n = 2 and floor(n * speed) >= 1 the two nodes are in one cluster
\* after the first step, whatever is drawn, and the first entry records 1.
C13_TwoButtons ==
    \A r \in live :
        Started(r) /\ model[r].p.n = 2 /\ FloorEdges(model[r].p) >= 1 /\ t[r] >= 1 =>
            /\ Clusters(r) = {{0, 1}}
            /\ Log(r)[1].max_cluster_size[1] = Log(r)[1].max_cluster_size[2]
            /\ Log(r)[1].max_cluster_size[2] = 2

C13_Witness ==
    /\ status[1] = "done"
    /\ model[1].p.n = 2
    /\ model[1].p.steps = 1
    /\ FloorEdges(model[1].p) = 2
    /\ Log(1)[1].max_cluster_size = <<2, 2>>

\* C14: every edge joins two different nodes of 0 .. n-1.
C14_EdgesAreProperPairs ==
    \A r \in live : \A e \in Edges(r) :
        /\ Cardinality(e) = 2
        /\ e \subseteq 0 .. model[r].p.n - 1

C14_Witness ==
    /\ Cardinality(Edges(1)) = 2
    /\ model[1].threads = 3
    /\ model[1].p.n = 4

\* The effect of tying one more pair in the state of run r.
SameCluster(r, pr) ==
    \E g \in Clusters(r) : model[r].node[pr[1]] \in g /\ model[r].node[pr[2]] \in g

ClusterOf(r, a) == CHOOSE g \in Clusters(r) : model[r].node[a] \in g

\* C15: tying a pair of one cluster counts one thread and leaves the clusters
\* as they are; tying a pair of two clusters counts one thread, joins these
\* two clusters and leaves every other cluster as it is.
C15_TieFrame ==
    \A r \in live :
        Started(r) =>
            \A pr \in random2(model[r].agents) :
                LET after == tie(model[r], pr)
                    cs == connected_components(after.buttons)
                IN  /\ after.threads = model[r].threads + 1
                    /\ IF SameCluster(r, pr)
                       THEN /\ cs = Clusters(r)
                            /\ Max({Cardinality(g) : g \in cs}) = Largest(r)
                       ELSE cs = (Clusters(r) \ {ClusterOf(r, pr[1]), ClusterOf(r, pr[2])})
                                     \cup {ClusterOf(r, pr[1]) \cup ClusterOf(r, pr[2])}

C15_Witness ==
    /\ Started(1)
    /\ model[1].p.n = 4
    /\ model[1].threads = 3
    /\ Cardinality(Edges(1)) = 2
    /\ Cardinality(Clusters(1)) = 2
    /\ \E pr \in random2(model[1].agents) : ~SameCluster(1, pr)

\* C16: the entry of the k-th step is recorded after the step's last thread:
\* its ratio is k * floor(n * speed) / n and its size is that of the biggest
\* cluster of the graph as the step leaves it, over n.
C16_MetricsAfterEdges ==
    \A r \in live :
        Started(r) =>
            /\ \A i \in 1 .. Len(Log(r)) :
                  Log(r)[i].threads_to_button =
                      <<i * FloorEdges(model[r].p), model[r].p.n>>
            /\ (Log(r) # <<>> =>
                  Log(r)[Len(Log(r))].max_cluster_size = <<Largest(r), model[r].p.n>>)

C16_Witness ==
    /\ status[1] = "running"
    /\ Len(Log(1)) = 1
    /\ FloorEdges(model[1].p) = 2
    /\ Log(1)[1] = [threads_to_button |-> <<2, 4>>, max_cluster_size |-> <<3, 4>>]

\* min(a, b)
Least(a, b) == IF a <= b THEN a ELSE b

\* C18: the biggest cluster has at least 1 and at most min(n, threads + 1)
\* nodes, every entry lies between 1/n and min(1, (threads + 1)/n) for the
\* threads it records, and all n nodes are in one cluster only once
\* threads >= n - 1.
C18_GiantNeedsThreads ==
    \A r \in live :
        Started(r) =>
            /\ Largest(r) >= 1
            /\ Largest(r) <= Least(model[r].p.n, model[r].threads + 1)
            /\ (Largest(r) = model[r].p.n => model[r].threads >= model[r].p.n - 1)
            /\ \A i \in 1 .. Len(Log(r)) :
                  LET f == Log(r)[i].max_cluster_size
                      th == Log(r)[i].threads_to_button[1]
                  IN  /\ Leq(<<1, model[r].p.n>>, f)
                      /\ Leq(f, <<Least(model[r].p.n, th + 1), model[r].p.n>>)

C18_Witness ==
    /\ Started(1)
    /\ model[1].p.n = 4
    /\ model[1].threads = 3
    /\ Largest(1) = 4
    /\ Len(Log(1)) = 3
    /\ Log(1)[2].max_cluster_size = <<3, 4>>

\* ---------------------------------------------------------------- C17
\* The sets of the disjoint-set structure of run r.
UfSets(r) ==
    {{w \in DOMAIN uf[r].parent :
         uf_root(uf[r].parent, w) = uf_root(uf[r].parent, v)} :
       v \in DOMAIN uf[r].parent}

\* C17: the running maximum of the disjoint-set structure is the size of the
\* biggest connected component computed from the graph, after every thread
\* and for every sequence of pairs, so both record the same size each step.
C17_RunningMaxIsLargest ==
    \A r \in live \cap DOMAIN uf :
        Started(r) =>
            /\ uf[r].largest = Largest(r)
            /\ UfSets(r) = Clusters(r)
            /\ (Log(r) # <<>> =>
                  Log(r)[Len(Log(r))].max_cluster_size =
                      <<uf[r].largest, model[r].p.n>>)

C17_Witness ==
    /\ Started(1)
    /\ model[1].p.n = 4
    /\ model[1].threads = 3
    /\ uf[1].largest = 3
    /\ Cardinality(Edges(1)) = 2
    /\ Cardinality({v \in DOMAIN uf[1].parent : uf[1].parent[v] # v}) = 2

====
